---- MODULE Spec2Model ----
(***************************************************************************)
(* KanMind: the authorization and data-consistency model of the two        *)
(* parallel implementations of the Kanban backend found in the repository: *)
(*   "KanMind-Backend"  (definitions prefixed D_)                          *)
(*   "KanMind_Backend"  (definitions prefixed U_)                          *)
(* One store (boards, tasks, comments) is modelled; impl says which of     *)
(* the two implementations serves the requests of a behaviour.             *)
(***************************************************************************)
EXTENDS Integers, FiniteSets, Sequences, TLC

\* ---------------------------------------------------------------- bounds
MaxBoards == 2
MaxTasks == 1
MaxComments == 1
MaxRegistrations == 2

\* ------------------------------------------------------------ value sets
Impls == {"KanMind-Backend", "KanMind_Backend"}

\* The registered users (the identity store is fixed here) and the user ids
\* a request may carry; UserIds \ Users are ids of no user.
Users == {1, 2, 3}
UserIds == {1, 2, 3, 4}

BoardIds == 1..MaxBoards
TaskIds == 1..MaxTasks
CommentIds == 1..MaxComments

Titles == {"a", "b"}

\* The clients whose registration requests may be in flight together.
Clients == {1, 2}

\* What registration and login requests carry.  "u1@x.io" is the email of
\* user 1; the two spellings of Ann Lee have the same slug; "short" has fewer
\* than eight characters.
Emails == {"u1@x.io", "a@x.io", "b@x.io"}
Fullnames == {"Ann Lee", "ann lee", "Bob"}
Passwords == {"password1", "password2", "short"}

\* choices_status(); the default of Task.status is "to-do".
Statuses == {"to-do", "in-progress", "review", "done"}
DefaultStatus == "to-do"

\* ------------------------------------------------------------- the state
VARIABLES
  impl,           \* the implementation that serves the requests
  boards,         \* board id -> [title, owner, members]
  tasks,          \* task id -> [board, status, assignee, reviewer (, created_by)]
  comments,       \* comment id -> [task, author, content]
  nextBoardId,    \* the next AutoField value of each table
  nextTaskId,
  nextCommentId,
  accounts,       \* user id -> [email, username, password (, fullname)]
  profiles,       \* user id -> full_name (UserProfile, KanMind-Backend)
  tokens,         \* the users that have a Token row
  nextUserId,
  reg,            \* client -> its registration request between is_valid and save
  upd             \* client -> its board update between members.set's read and write

authVars == <<accounts, profiles, tokens, nextUserId, reg>>

vars == <<impl, boards, tasks, comments, nextBoardId, nextTaskId, nextCommentId,
          accounts, profiles, tokens, nextUserId, reg, upd>>

\* An optional user reference (a nullable ForeignKey, or a nullable id in a
\* payload) is a set: {} is None/null, {u} is user u.
NoUser == {}

Empty == [x \in {} |-> x]

Remove(f, S) == [k \in DOMAIN f \ S |-> f[k]]

Put(f, k, v) == [x \in DOMAIN f \cup {k} |-> IF x = k THEN v ELSE f[x]]

\* User.objects.filter(id__in=ids): the ids that are users.
\* A lookup that takes every id for a user.
Mut_NoFilter(ids) == ids

User_filter_id_in(ids) == ids \cap Users

\* The result of a handler: the response (the HTTP outcome and the key of the
\* error it reports) and the store the handler leaves.
Result(code, detail, b, t, c) ==
  [code |-> code, detail |-> detail, boards |-> b, tasks |-> t, comments |-> c]

Refused(code, detail) == Result(code, detail, boards, tasks, comments)

\* The response of a list request: its status and the ids of the rows it
\* returns, in the order it returns them.
Listing(code, items) == [code |-> code, items |-> items]

\* order_by on a column that grows with the id (id, created_at).
RECURSIVE OrderByAsc(_)
OrderByAsc(S) ==
  IF S = {} THEN <<>>
  ELSE LET m == CHOOSE x \in S : \A y \in S : x <= y IN <<m>> \o OrderByAsc(S \ {m})

RECURSIVE OrderByDesc(_)
OrderByDesc(S) ==
  IF S = {} THEN <<>>
  ELSE LET m == CHOOSE x \in S : \A y \in S : x >= y IN <<m>> \o OrderByDesc(S \ {m})

\* ============================================================ the models
\* A cascade that reaches nothing.
Mut_NoTasks(b) == {}

\* on_delete=CASCADE of Task.board and TaskComment.task (KanMind-Backend).
D_TasksOfBoard(b) == {t \in DOMAIN tasks : tasks[t].board = b}

D_CommentsOfTasks(ts) == {c \in DOMAIN comments : comments[c].task \in ts}

D_Board_delete(b) ==
  Result("NoContent", "", Remove(boards, {b}),
         Remove(tasks, D_TasksOfBoard(b)),
         Remove(comments, D_CommentsOfTasks(D_TasksOfBoard(b))))

D_Task_delete(t) ==
  Result("NoContent", "", boards, Remove(tasks, {t}),
         Remove(comments, D_CommentsOfTasks({t})))

\* KanMind_Backend: tasks_app/models.py is not among the sources; Task and
\* Comment are as the specification describes them (Board owns its Tasks,
\* Task owns its Comments, both cascade).
U_Board_delete(b) ==
  LET ts == {t \in DOMAIN tasks : tasks[t].board = b} IN
  Result("NoContent", "", Remove(boards, {b}), Remove(tasks, ts),
         Remove(comments, {c \in DOMAIN comments : comments[c].task \in ts}))

U_Task_delete(t) ==
  Result("NoContent", "", boards, Remove(tasks, {t}),
         Remove(comments, {c \in DOMAIN comments : comments[c].task = t}))

\* ====================================================== board permissions
\* Owner only, where the code admits members too.
Mut_OwnerOnly(user, obj) ==
  obj.owner = user

\* Members too, where the code admits the owner only.
Mut_OwnerOrMember(user, obj) ==
  obj.owner = user \/ user \in obj.members

\* KanMind-Backend boards_app/api/permissions.py
D_IsBoardMemberOrOwner_has_object_permission(user, obj) ==
  obj.owner = user \/ user \in obj.members

\* KanMind_Backend boards_app/api/permissions.py
U_IsBoardOwnerOrMember_has_object_permission(user, obj) ==
  obj.owner = user \/ user \in obj.members

U_IsBoardOwner_has_object_permission(user, obj) ==
  obj.owner = user

\* BoardViewSet.get_queryset
D_BoardViewSet_get_queryset(user, action) ==
  IF action \in {"retrieve", "update", "partial_update", "destroy"}
  THEN DOMAIN boards
  ELSE {b \in DOMAIN boards : boards[b].owner = user \/ user \in boards[b].members}

U_BoardViewSet_get_queryset(user) ==
  {b \in DOMAIN boards : boards[b].owner = user \/ user \in boards[b].members}

\* ========================================================== board handlers
\* The orders in which a queryset without ordering may return its rows.
Orderings(S) ==
  {s \in [1..Cardinality(S) -> S] : \A i, j \in 1..Cardinality(S) : s[i] = s[j] => i = j}

\* --- list: the responses the request may get.
\* KanMind-Backend: get_queryset's filter, de-duplicated, in Board.Meta.ordering.
D_BoardViewSet_list(user) ==
  {Listing("OK", OrderByDesc(D_BoardViewSet_get_queryset(user, "list")))}

\* KanMind_Backend: the queryset has no order_by and Board has no ordering.
U_BoardViewSet_list(user) ==
  {Listing("OK", s) : s \in Orderings(U_BoardViewSet_get_queryset(user))}

\* --- create
D_BoardCreateSerializer_create(user, data) ==
  Put(boards, nextBoardId,
      [title |-> data.title, owner |-> user,
       members |-> User_filter_id_in(data.members)])

D_BoardViewSet_create(user, data) ==
  IF "title" \notin DOMAIN data THEN Refused("ValidationError", "title")
  ELSE IF "members" \notin DOMAIN data THEN Refused("ValidationError", "members")
  ELSE Result("Created", "", D_BoardCreateSerializer_create(user, data), tasks, comments)

U_BoardCreateSerializer_create(user, data) ==
  LET members_ids == IF "members" \in DOMAIN data THEN data.members ELSE {} IN
  Put(boards, nextBoardId,
      [title |-> data.title, owner |-> user,
       members |-> IF members_ids # {} THEN User_filter_id_in(members_ids) ELSE {}])

U_BoardViewSet_create(user, data) ==
  IF "title" \notin DOMAIN data THEN Refused("ValidationError", "title")
  ELSE Result("Created", "", U_BoardCreateSerializer_create(user, data), tasks, comments)

\* --- retrieve
D_BoardViewSet_retrieve(user, pk) ==
  IF pk \notin D_BoardViewSet_get_queryset(user, "retrieve") THEN Refused("NotFound", "")
  ELSE IF ~D_IsBoardMemberOrOwner_has_object_permission(user, boards[pk])
  THEN Refused("Forbidden", "")
  ELSE Refused("OK", "")

U_BoardViewSet_retrieve(user, pk) ==
  IF pk \notin U_BoardViewSet_get_queryset(user) THEN Refused("NotFound", "")
  ELSE IF ~U_IsBoardOwnerOrMember_has_object_permission(user, boards[pk])
  THEN Refused("Forbidden", "")
  ELSE Refused("OK", "")

\* --- update (PUT and PATCH: both fields of BoardUpdateSerializer are optional)
D_BoardUpdateSerializer_validate_members(value) ==
  value \ User_filter_id_in(value) = {}

\* An update that adds the listed members to the members there are.
Mut_MergeMembers(instance, validated_data) ==
  [instance EXCEPT
     !.title = IF "title" \in DOMAIN validated_data THEN validated_data.title ELSE @,
     !.members = IF "members" \in DOMAIN validated_data
                 THEN @ \cup (validated_data.members \cap Users) ELSE @]

D_BoardUpdateSerializer_update(instance, validated_data) ==
  [instance EXCEPT
     !.title = IF "title" \in DOMAIN validated_data
               THEN validated_data.title ELSE @,
     !.members = IF "members" \in DOMAIN validated_data
                 THEN User_filter_id_in(validated_data.members) ELSE @]

D_BoardViewSet_update(user, pk, data) ==
  IF pk \notin D_BoardViewSet_get_queryset(user, "update") THEN Refused("NotFound", "")
  ELSE IF ~D_IsBoardMemberOrOwner_has_object_permission(user, boards[pk])
  THEN Refused("Forbidden", "")
  ELSE IF "members" \in DOMAIN data
          /\ ~D_BoardUpdateSerializer_validate_members(data.members)
  THEN Refused("ValidationError", "members")
  ELSE Result("OK", "",
              [boards EXCEPT ![pk] = D_BoardUpdateSerializer_update(boards[pk], data)],
              tasks, comments)

\* An update that also hands the board to the first of the listed members.
Mut_TransferOwner(instance, validated_data) ==
  [instance EXCEPT
     !.title = IF "title" \in DOMAIN validated_data THEN validated_data.title ELSE @,
     !.members = IF "members" \in DOMAIN validated_data
                 THEN validated_data.members \cap Users ELSE @,
     !.owner = IF "members" \in DOMAIN validated_data
                  /\ validated_data.members \cap Users # {}
               THEN CHOOSE u \in validated_data.members \cap Users :
                      \A v \in validated_data.members \cap Users : u <= v
               ELSE @]

U_BoardUpdateSerializer_update(instance, validated_data) ==
  [instance EXCEPT
     !.title = IF "title" \in DOMAIN validated_data
               THEN validated_data.title ELSE @,
     !.members = IF "members" \in DOMAIN validated_data
                 THEN User_filter_id_in(validated_data.members) ELSE @]

U_BoardViewSet_update(user, pk, data) ==
  IF pk \notin U_BoardViewSet_get_queryset(user) THEN Refused("NotFound", "")
  ELSE IF ~U_IsBoardOwnerOrMember_has_object_permission(user, boards[pk])
  THEN Refused("Forbidden", "")
  ELSE Result("OK", "",
              [boards EXCEPT ![pk] = U_BoardUpdateSerializer_update(boards[pk], data)],
              tasks, comments)

\* --- destroy
D_BoardViewSet_destroy(user, pk) ==
  IF pk \notin D_BoardViewSet_get_queryset(user, "destroy") THEN Refused("NotFound", "")
  ELSE IF ~D_IsBoardMemberOrOwner_has_object_permission(user, boards[pk])
  THEN Refused("Forbidden", "")
  ELSE IF boards[pk].owner # user THEN Refused("Forbidden", "owner")
  ELSE D_Board_delete(pk)

U_BoardViewSet_destroy(user, pk) ==
  IF pk \notin U_BoardViewSet_get_queryset(user) THEN Refused("NotFound", "")
  ELSE IF ~U_IsBoardOwner_has_object_permission(user, boards[pk])
  THEN Refused("Forbidden", "")
  ELSE U_Board_delete(pk)

\* ======================================================= task permissions
\* A permission method answers "True" or "False", or raises: the name of the
\* exception is then its answer.
\* KanMind-Backend tasks_app/api/permissions.py
D_IsBoardOwnerOrMember_has_permission(user, action, data) ==
  IF action = "create"
  THEN IF "board" \notin DOMAIN data THEN "False"
       ELSE IF data.board \notin DOMAIN boards THEN "NotFound"
       ELSE IF boards[data.board].owner = user \/ user \in boards[data.board].members
            THEN "True" ELSE "False"
  ELSE "True"

D_IsBoardOwnerOrMember_has_object_permission(user, obj) ==
  LET board == boards[obj.board] IN
  board.owner = user \/ user \in board.members

D_IsBoardOwner_has_object_permission(user, obj) ==
  boards[obj.board].owner = user

D_IsTaskOwner_has_object_permission(user, obj) ==
  obj.assignee = {user}

\* A permission that admits every request.
Mut_PermitAll(user, method, data) == TRUE

\* KanMind_Backend tasks_app/api/permissions.py
U_IsBoardMember_has_permission(user, method, data) ==
  IF method = "POST" /\ "board" \in DOMAIN data
  THEN IF data.board \in DOMAIN boards
       THEN boards[data.board].owner = user \/ user \in boards[data.board].members
       ELSE FALSE
  ELSE TRUE

\* obj.task.board: obj is a Comment in CommentViewSet and a Task in
\* TaskViewSet; a Task has no attribute task.
U_IsBoardMember_has_object_permission(user, obj) ==
  IF "task" \notin DOMAIN obj THEN "AttributeError"
  ELSE LET board == boards[tasks[obj.task].board] IN
       IF board.owner = user \/ user \in board.members THEN "True" ELSE "False"

U_IsTaskCreatorOrBoardOwner_has_object_permission(user, method, obj) ==
  IF method = "DELETE"
  THEN obj.created_by = user \/ boards[obj.board].owner = user
  ELSE TRUE

U_IsCommentAuthor_has_object_permission(user, method, obj) ==
  IF method = "DELETE" THEN obj.author = user ELSE TRUE

\* ========================================================= task serializers
\* The instance of a serializer that has none (a create).
NoInstance == Empty

\* attrs.get(key): None when the key is absent.
AttrsGetUser(attrs, key) == IF key \in DOMAIN attrs THEN attrs[key] ELSE NoUser

\* --- KanMind-Backend TaskSerializer
\* The fields' own validation (run before validate): board is required unless
\* the update is partial and must be the pk of a board; assignee_id and
\* reviewer_id, when given and not null, must be the pk of a user.
D_TaskSerializer_fields(data, partial) ==
  IF "board" \notin DOMAIN data /\ ~partial THEN "board"
  ELSE IF "board" \in DOMAIN data /\ data.board \notin DOMAIN boards THEN "board"
  ELSE IF "assignee_id" \in DOMAIN data /\ data.assignee_id \ Users # {} THEN "assignee_id"
  ELSE IF "reviewer_id" \in DOMAIN data /\ data.reviewer_id \ Users # {} THEN "reviewer_id"
  ELSE IF "status" \in DOMAIN data /\ data.status \notin Statuses THEN "status"
  ELSE ""

\* validated_data: assignee_id and reviewer_id are stored under their source.
D_TaskSerializer_attrs(data) ==
  [k \in (DOMAIN data \ {"assignee_id", "reviewer_id"})
         \cup (IF "assignee_id" \in DOMAIN data THEN {"assignee"} ELSE {})
         \cup (IF "reviewer_id" \in DOMAIN data THEN {"reviewer"} ELSE {}) |->
     IF k = "assignee" THEN data.assignee_id
     ELSE IF k = "reviewer" THEN data.reviewer_id
     ELSE data[k]]

\* _get_board: a set, empty when the board cannot be determined.
D_TaskSerializer_get_board(instance, attrs) ==
  IF "board" \in DOMAIN attrs THEN {attrs.board}
  ELSE IF instance # NoInstance THEN {instance.board}
  ELSE {}

D_TaskSerializer_validate_board_access(user, board) ==
  board.owner = user \/ user \in board.members

\* A role check that admits every user.
Mut_AnyUser(user, board) == TRUE

D_TaskSerializer_validate_user_role(user, board) ==
  user = NoUser \/ user \subseteq board.members

\* A board-change check that never objects.
Mut_AllowBoardChange(instance, attrs) == TRUE

D_TaskSerializer_prevent_board_change(instance, attrs) ==
  instance = NoInstance \/ ~("board" \in DOMAIN attrs /\ attrs.board # instance.board)

\* validate: "" when attrs pass, else the key of the ValidationError.
D_TaskSerializer_validate(user, instance, attrs) ==
  LET bs == D_TaskSerializer_get_board(instance, attrs) IN
  IF bs = {} THEN "board"
  ELSE LET board == boards[CHOOSE b \in bs : TRUE] IN
       IF instance = NoInstance /\ ~D_TaskSerializer_validate_board_access(user, board)
       THEN "board_access"
       ELSE IF ~D_TaskSerializer_validate_user_role(AttrsGetUser(attrs, "assignee"), board)
       THEN "assignee"
       ELSE IF ~D_TaskSerializer_validate_user_role(AttrsGetUser(attrs, "reviewer"), board)
       THEN "reviewer"
       ELSE IF ~D_TaskSerializer_prevent_board_change(instance, attrs)
       THEN "board_change"
       ELSE ""

\* ModelSerializer.create: Task.objects.create(**validated_data)
D_TaskSerializer_create(attrs) ==
  [board |-> attrs.board,
   status |-> IF "status" \in DOMAIN attrs THEN attrs.status ELSE DefaultStatus,
   assignee |-> AttrsGetUser(attrs, "assignee"),
   reviewer |-> AttrsGetUser(attrs, "reviewer")]

\* ModelSerializer.update: setattr(instance, attr, value) for each attr
D_TaskSerializer_update(instance, attrs) ==
  [k \in DOMAIN instance |-> IF k \in DOMAIN attrs THEN attrs[k] ELSE instance[k]]

\* --- KanMind_Backend TaskCreateSerializer / TaskUpdateSerializer
U_TaskCreateSerializer_fields(data) ==
  IF "board" \notin DOMAIN data THEN "board"
  ELSE IF data.board \notin DOMAIN boards THEN "board"
  ELSE IF "status" \in DOMAIN data /\ data.status \notin Statuses THEN "status"
  ELSE ""

\* data.get(key) of a nullable integer id.
DataGetId(data, key) == IF key \in DOMAIN data THEN data[key] ELSE NoUser

\* A check of the named user that never objects.
Mut_NoUserCheck(id, board) == ""

U_ValidateUser(id, board) ==
  IF id = NoUser THEN ""
  ELSE IF id \ Users # {} THEN "does_not_exist"
  ELSE IF id # {board.owner} /\ ~(id \subseteq board.members) THEN "not_member"
  ELSE ""

U_TaskCreateSerializer_validate(data) ==
  IF "board" \in DOMAIN data
  THEN IF data.board \notin DOMAIN boards THEN "board"
       ELSE LET board == boards[data.board] IN
            IF U_ValidateUser(DataGetId(data, "assignee_id"), board) # "" THEN "assignee_id"
            ELSE IF U_ValidateUser(DataGetId(data, "reviewer_id"), board) # "" THEN "reviewer_id"
            ELSE ""
  ELSE ""

U_TaskCreateSerializer_create(user, data) ==
  [board |-> data.board,
   status |-> IF "status" \in DOMAIN data THEN data.status ELSE DefaultStatus,
   created_by |-> user,
   assignee |-> DataGetId(data, "assignee_id"),
   reviewer |-> DataGetId(data, "reviewer_id")]

U_TaskUpdateSerializer_fields(data) ==
  IF "status" \in DOMAIN data /\ data.status \notin Statuses THEN "status" ELSE ""

U_TaskUpdateSerializer_validate(instance, data) ==
  LET board == boards[instance.board] IN
  IF U_ValidateUser(DataGetId(data, "assignee_id"), board) # "" THEN "assignee_id"
  ELSE IF U_ValidateUser(DataGetId(data, "reviewer_id"), board) # "" THEN "reviewer_id"
  ELSE ""

\* Meta.fields has no board: a board in the request is not in validated_data.
U_TaskUpdateSerializer_update(instance, data) ==
  [instance EXCEPT
     !.status = IF "status" \in DOMAIN data THEN data.status ELSE @,
     !.assignee = IF DataGetId(data, "assignee_id") # NoUser THEN data.assignee_id ELSE @,
     !.reviewer = IF DataGetId(data, "reviewer_id") # NoUser THEN data.reviewer_id ELSE @]

\* =========================================================== task handlers
\* --- KanMind-Backend TaskViewSet (Create/Update/DestroyModelMixin)
D_TaskViewSet_create(user, data) ==
  LET perm == D_IsBoardOwnerOrMember_has_permission(user, "create", data) IN
  IF perm = "NotFound" THEN Refused("NotFound", "board")
  ELSE IF perm = "False" THEN Refused("Forbidden", "")
  ELSE IF D_TaskSerializer_fields(data, FALSE) # ""
  THEN Refused("ValidationError", D_TaskSerializer_fields(data, FALSE))
  ELSE LET attrs == D_TaskSerializer_attrs(data)
           err == D_TaskSerializer_validate(user, NoInstance, attrs) IN
       IF err # "" THEN Refused("ValidationError", err)
       ELSE Result("Created", "", boards,
                   Put(tasks, nextTaskId, D_TaskSerializer_create(attrs)), comments)

D_TaskViewSet_update(user, pk, data, partial) ==
  IF D_IsBoardOwnerOrMember_has_permission(user, "update", data) # "True"
  THEN Refused("Forbidden", "")
  ELSE IF pk \notin DOMAIN tasks THEN Refused("NotFound", "")
  ELSE IF ~D_IsBoardOwnerOrMember_has_object_permission(user, tasks[pk])
  THEN Refused("Forbidden", "")
  ELSE IF D_TaskSerializer_fields(data, partial) # ""
  THEN Refused("ValidationError", D_TaskSerializer_fields(data, partial))
  ELSE LET attrs == D_TaskSerializer_attrs(data)
           err == D_TaskSerializer_validate(user, tasks[pk], attrs) IN
       IF err # "" THEN Refused("ValidationError", err)
       ELSE Result("OK", "", boards,
                   [tasks EXCEPT ![pk] = D_TaskSerializer_update(tasks[pk], attrs)],
                   comments)

\* permission_classes = [IsBoardOwner | IsTaskOwner]
D_TaskViewSet_destroy(user, pk) ==
  IF pk \notin DOMAIN tasks THEN Refused("NotFound", "")
  ELSE IF ~(D_IsBoardOwner_has_object_permission(user, tasks[pk])
            \/ D_IsTaskOwner_has_object_permission(user, tasks[pk]))
  THEN Refused("Forbidden", "")
  ELSE D_Task_delete(pk)

\* --- KanMind_Backend TaskViewSet
U_TaskViewSet_create(user, data) ==
  IF ~U_IsBoardMember_has_permission(user, "POST", data) THEN Refused("Forbidden", "")
  ELSE IF U_TaskCreateSerializer_fields(data) # ""
  THEN Refused("ValidationError", U_TaskCreateSerializer_fields(data))
  ELSE IF U_TaskCreateSerializer_validate(data) # ""
  THEN Refused("ValidationError", U_TaskCreateSerializer_validate(data))
  ELSE Result("Created", "", boards,
              Put(tasks, nextTaskId, U_TaskCreateSerializer_create(user, data)), comments)

U_TaskViewSet_update(user, pk, data) ==
  IF ~U_IsBoardMember_has_permission(user, "PATCH", data) THEN Refused("Forbidden", "")
  ELSE IF pk \notin DOMAIN tasks THEN Refused("NotFound", "")
  ELSE LET perm == U_IsBoardMember_has_object_permission(user, tasks[pk]) IN
       IF perm = "AttributeError" THEN Refused("ServerError", "AttributeError")
       ELSE IF perm = "False" THEN Refused("Forbidden", "")
       ELSE IF U_TaskUpdateSerializer_fields(data) # ""
       THEN Refused("ValidationError", U_TaskUpdateSerializer_fields(data))
       ELSE IF U_TaskUpdateSerializer_validate(tasks[pk], data) # ""
       THEN Refused("ValidationError", U_TaskUpdateSerializer_validate(tasks[pk], data))
       ELSE Result("OK", "", boards,
                   [tasks EXCEPT ![pk] = U_TaskUpdateSerializer_update(tasks[pk], data)],
                   comments)

U_TaskViewSet_destroy(user, pk) ==
  IF ~U_IsBoardMember_has_permission(user, "DELETE", Empty) THEN Refused("Forbidden", "")
  ELSE IF pk \notin DOMAIN tasks THEN Refused("NotFound", "")
  ELSE LET perm == U_IsBoardMember_has_object_permission(user, tasks[pk]) IN
       IF perm = "AttributeError" THEN Refused("ServerError", "AttributeError")
       ELSE IF perm = "False" THEN Refused("Forbidden", "")
       ELSE IF ~U_IsTaskCreatorOrBoardOwner_has_object_permission(user, "DELETE", tasks[pk])
       THEN Refused("Forbidden", "")
       ELSE U_Task_delete(pk)

\* --- the lists of the caller's tasks
\* A queryset that also asks for the caller's access to the task's board.
Mut_OnBoardsOfUser(user, mode) ==
  {t \in DOMAIN tasks :
     /\ (boards[tasks[t].board].owner = user \/ user \in boards[tasks[t].board].members)
     /\ IF mode = "assigned" THEN tasks[t].assignee = {user}
        ELSE IF mode = "reviewer" THEN tasks[t].reviewer = {user}
        ELSE FALSE}

\* KanMind-Backend TaskAssignedOrReviewerViewSet; mode is the initkwarg of
\* as_view in the urls.
D_TaskAssignedOrReviewerViewSet_get_queryset(user, mode) ==
  {t \in DOMAIN tasks :
     IF mode = "assigned" THEN tasks[t].assignee = {user}
     ELSE IF mode = "reviewer" THEN tasks[t].reviewer = {user}
     ELSE FALSE}

\* ListModelMixin.list, in Task.Meta.ordering (-id).
D_TaskAssignedOrReviewerViewSet_list(user, mode) ==
  {Listing("OK", OrderByDesc(D_TaskAssignedOrReviewerViewSet_get_queryset(user, mode)))}

\* KanMind_Backend TaskViewSet.assigned_to_me and reviewing: get_permissions
\* gives IsBoardMember, whose has_permission admits every GET; the querysets
\* have no order_by.
U_TaskViewSet_assigned_to_me(user) ==
  IF ~U_IsBoardMember_has_permission(user, "GET", Empty) THEN {Listing("Forbidden", <<>>)}
  ELSE {Listing("OK", s) : s \in Orderings({t \in DOMAIN tasks : tasks[t].assignee = {user}})}

U_TaskViewSet_reviewing(user) ==
  IF ~U_IsBoardMember_has_permission(user, "GET", Empty) THEN {Listing("Forbidden", <<>>)}
  ELSE {Listing("OK", s) : s \in Orderings({t \in DOMAIN tasks : tasks[t].reviewer = {user}})}

\* ======================================================== comment handlers
\* str.strip() on the contents the requests carry.
Strip(content) ==
  CASE content = "hi" -> "hi"
    [] content = " hi " -> "hi"
    [] content = "yo" -> "yo"
    [] content = " " -> ""
    [] content = "" -> ""

\* content is a CharField: required, trimmed (trim_whitespace), and not blank
\* once trimmed.
CommentContentValid(data) ==
  "content" \in DOMAIN data /\ Strip(data.content) # ""

\* --- KanMind-Backend TaskCommentsViewSet
D_TaskCommentsViewSet_get_queryset(user, task_pk) ==
  IF task_pk \notin DOMAIN tasks THEN "NotFound"
  ELSE LET board == boards[tasks[task_pk].board] IN
       IF user # board.owner /\ user \notin board.members THEN "Forbidden" ELSE "OK"

D_TaskCommentSerializer_validate(data) ==
  CommentContentValid(data)

D_TaskCommentsViewSet_create(user, task_pk, data) ==
  IF task_pk \notin DOMAIN tasks THEN Refused("NotFound", "")
  ELSE LET board == boards[tasks[task_pk].board] IN
       IF user # board.owner /\ user \notin board.members THEN Refused("Forbidden", "")
       ELSE IF ~D_TaskCommentSerializer_validate(data)
       THEN Refused("ValidationError", "content")
       ELSE Result("Created", "", boards, tasks,
                   Put(comments, nextCommentId,
                       [task |-> task_pk, author |-> user,
                        content |-> Strip(data.content)]))

\* The viewset has no UpdateModelMixin: the router gives PUT and PATCH no
\* handler.
D_TaskCommentsViewSet_update(user, task_pk, pk, data, partial) ==
  Refused("MethodNotAllowed", "")

\* ListModelMixin.list over get_queryset; TaskComment.Meta.ordering is
\* created_at.
D_TaskCommentsViewSet_list(user, task_pk) ==
  LET qs == D_TaskCommentsViewSet_get_queryset(user, task_pk) IN
  IF qs # "OK" THEN Listing(qs, <<>>)
  ELSE Listing("OK", OrderByAsc({c \in DOMAIN comments : comments[c].task = task_pk}))

\* A destroy that asks nothing about the author.
Mut_AnyAuthor(user, comment) == TRUE

\* destroy: comment.author != user is answered with 403.
D_TaskCommentsViewSet_destroy_is_author(user, comment) ==
  comment.author = user

D_TaskCommentsViewSet_destroy(user, task_pk, pk) ==
  LET qs == D_TaskCommentsViewSet_get_queryset(user, task_pk) IN
  IF qs # "OK" THEN Refused(qs, "")
  ELSE IF pk \notin DOMAIN comments \/ comments[pk].task # task_pk
  THEN Refused("NotFound", "")
  ELSE IF ~D_TaskCommentsViewSet_destroy_is_author(user, comments[pk])
  THEN Refused("Forbidden", "author")
  ELSE Result("NoContent", "", boards, tasks, Remove(comments, {pk}))

\* --- KanMind_Backend CommentViewSet
U_CommentSerializer_create(user, task_pk, data) ==
  [task |-> task_pk, author |-> user, content |-> Strip(data.content)]

U_CommentViewSet_create(user, task_pk, data) ==
  IF ~U_IsBoardMember_has_permission(user, "POST", data) THEN Refused("Forbidden", "")
  ELSE IF task_pk \notin DOMAIN tasks THEN Refused("NotFound", "")
  ELSE IF ~CommentContentValid(data) THEN Refused("ValidationError", "content")
  ELSE Result("Created", "", boards, tasks,
              Put(comments, nextCommentId, U_CommentSerializer_create(user, task_pk, data)))

U_CommentViewSet_get_queryset(task_pk) ==
  {c \in DOMAIN comments : comments[c].task = task_pk}

\* list: no object is fetched through get_object, so only has_permission runs.
U_CommentViewSet_list(user, task_pk) ==
  IF ~U_IsBoardMember_has_permission(user, "GET", Empty) THEN Listing("Forbidden", <<>>)
  ELSE IF task_pk \notin DOMAIN tasks THEN Listing("NotFound", <<>>)
  ELSE Listing("OK", OrderByAsc({c \in DOMAIN comments : comments[c].task = task_pk}))

\* update and partial_update of ModelViewSet (UpdateModelMixin): get_object,
\* then CommentSerializer, whose only writable field is content.
U_CommentViewSet_update(user, task_pk, pk, data, partial) ==
  IF ~U_IsBoardMember_has_permission(user, IF partial THEN "PATCH" ELSE "PUT", data)
  THEN Refused("Forbidden", "")
  ELSE IF pk \notin U_CommentViewSet_get_queryset(task_pk) THEN Refused("NotFound", "")
  ELSE LET perm == U_IsBoardMember_has_object_permission(user, comments[pk]) IN
       IF perm = "AttributeError" THEN Refused("ServerError", "AttributeError")
       ELSE IF perm = "False" THEN Refused("Forbidden", "")
       ELSE IF "content" \notin DOMAIN data
       THEN IF partial THEN Refused("OK", "") ELSE Refused("ValidationError", "content")
       ELSE IF ~CommentContentValid(data) THEN Refused("ValidationError", "content")
       ELSE Result("OK", "", boards, tasks,
                   [comments EXCEPT ![pk].content = Strip(data.content)])

U_CommentViewSet_destroy(user, task_pk, pk) ==
  IF ~U_IsBoardMember_has_permission(user, "DELETE", Empty) THEN Refused("Forbidden", "")
  ELSE IF pk \notin U_CommentViewSet_get_queryset(task_pk) THEN Refused("NotFound", "")
  ELSE LET perm == U_IsBoardMember_has_object_permission(user, comments[pk]) IN
       IF perm = "AttributeError" THEN Refused("ServerError", "AttributeError")
       ELSE IF perm = "False" THEN Refused("Forbidden", "")
       ELSE IF ~U_IsCommentAuthor_has_object_permission(user, "DELETE", comments[pk])
       THEN Refused("Forbidden", "")
       ELSE IF comments[pk].author # user THEN Refused("Forbidden", "author")
       ELSE Result("NoContent", "", boards, tasks, Remove(comments, {pk}))

\* ======================================================= registration, login
\* slugify() on the full names of the requests and of the seeded users.
Slugify(fullname) ==
  CASE fullname = "Ann Lee" -> "ann-lee"
    [] fullname = "ann lee" -> "ann-lee"
    [] fullname = "Bob" -> "bob"
    [] fullname = "User 1" -> "user-1"
    [] fullname = "User 2" -> "user-2"
    [] fullname = "User 3" -> "user-3"

\* The number of characters of a password.
PasswordLength(pw) == IF pw = "short" THEN 5 ELSE 9

\* set_password stores a hash of the raw password; check_password hashes the
\* raw password it is given and compares.
make_password(raw) == <<"pbkdf2_sha256", raw>>
check_password(raw, stored) == stored = make_password(raw)

\* The users of Users have registered before the behaviour starts, each with
\* the password "password1".
SeedEmail(u) == CASE u = 1 -> "u1@x.io" [] u = 2 -> "u2@x.io" [] u = 3 -> "u3@x.io"
SeedFullname(u) == CASE u = 1 -> "User 1" [] u = 2 -> "User 2" [] u = 3 -> "User 3"

SeedAccounts(i) ==
  [u \in Users |->
     IF i = "KanMind-Backend"
     THEN [email |-> SeedEmail(u), username |-> Slugify(SeedFullname(u)),
           password |-> make_password("password1")]
     ELSE [email |-> SeedEmail(u), username |-> SeedEmail(u),
           password |-> make_password("password1"), fullname |-> SeedFullname(u)]]

SeedProfiles(i) ==
  IF i = "KanMind-Backend" THEN [u \in Users |-> SeedFullname(u)] ELSE Empty

Idle == [pc |-> "idle"]

\* User.objects.filter(email=...) / filter(username=...)
User_filter_email(value) == {u \in DOMAIN accounts : accounts[u].email = value}
User_filter_username(value) == {u \in DOMAIN accounts : accounts[u].username = value}

\* The outcome of a registration or login: the status, the errors reported,
\* the three tables afterwards and the body of a successful response.
NoBody == Empty
AuthResult(code, errors, a, p, t, body) ==
  [code |-> code, errors |-> errors, accounts |-> a, profiles |-> p, tokens |-> t,
   body |-> body]
AuthRefused(code, errors) == AuthResult(code, errors, accounts, profiles, tokens, NoBody)

\* --- KanMind-Backend RegistrationSerializer
\* Every field is validated and the errors of all fields are reported.
\* An email check that finds every email free.
Mut_AnyEmail(value) == TRUE

D_RegistrationSerializer_validate_email(value) ==
  User_filter_email(value) = {}

D_RegistrationSerializer_validate_fullname(value) ==
  User_filter_username(Slugify(value)) = {}

\* A password check that compares nothing.
Mut_AnyPassword(value, initial_data) == TRUE

\* initial_data.get('repeated_password') is None when the field is absent.
D_RegistrationSerializer_validate_password(value, initial_data) ==
  "repeated_password" \in DOMAIN initial_data /\ value = initial_data.repeated_password

\* is_valid: the errors of the fields password, email, repeated_password and
\* fullname.  email is the model's field: optional.
D_RegistrationSerializer_is_valid(data) ==
  (IF "password" \notin DOMAIN data THEN {"password:required"}
   ELSE IF ~D_RegistrationSerializer_validate_password(data.password, data)
   THEN {"password:mismatch"} ELSE {})
  \cup (IF "email" \in DOMAIN data /\ ~D_RegistrationSerializer_validate_email(data.email)
        THEN {"email:in_use"} ELSE {})
  \cup (IF "repeated_password" \notin DOMAIN data THEN {"repeated_password:required"}
        ELSE {})
  \cup (IF "fullname" \notin DOMAIN data THEN {"fullname:required"}
        ELSE IF ~D_RegistrationSerializer_validate_fullname(data.fullname)
        THEN {"fullname:in_use"} ELSE {})

\* save(), then RegistrationView.create's Token.objects.get_or_create and
\* response.  validated_data['email'] of a request without email is a
\* KeyError; auth.User.username is unique, auth.User.email is not.
D_RegistrationSerializer_save(data) ==
  IF "email" \notin DOMAIN data THEN AuthRefused("ServerError", {"KeyError"})
  ELSE IF User_filter_username(Slugify(data.fullname)) # {}
  THEN AuthRefused("ServerError", {"IntegrityError"})
  ELSE AuthResult("Created", {},
         Put(accounts, nextUserId,
             [email |-> data.email, username |-> Slugify(data.fullname),
              password |-> make_password(data.password)]),
         Put(profiles, nextUserId, data.fullname),
         tokens \cup {nextUserId},
         [token |-> nextUserId, fullname |-> data.fullname, email |-> data.email,
          user_id |-> nextUserId])

D_RegistrationView_create(data) ==
  IF D_RegistrationSerializer_is_valid(data) # {}
  THEN AuthRefused("ValidationError", D_RegistrationSerializer_is_valid(data))
  ELSE D_RegistrationSerializer_save(data)

\* --- KanMind_Backend RegistrationSerializer
\* The user model has a unique email and a fullname.
U_RegistrationSerializer_fields(data) ==
  (IF "email" \notin DOMAIN data THEN {"email:required"}
   ELSE IF User_filter_email(data.email) # {} THEN {"email:unique"} ELSE {})
  \cup (IF "password" \notin DOMAIN data THEN {"password:required"}
        ELSE IF PasswordLength(data.password) < 8 THEN {"password:min_length"} ELSE {})
  \cup (IF "repeated_password" \notin DOMAIN data THEN {"repeated_password:required"}
        ELSE {})
  \cup (IF "fullname" \notin DOMAIN data THEN {"fullname:required"} ELSE {})

\* validate runs once every field is valid.
U_RegistrationSerializer_validate(data) ==
  IF data.password # data.repeated_password THEN {"password:mismatch"} ELSE {}

U_RegistrationSerializer_is_valid(data) ==
  IF U_RegistrationSerializer_fields(data) # {} THEN U_RegistrationSerializer_fields(data)
  ELSE U_RegistrationSerializer_validate(data)

\* create_user(email, username=email, ...): the insert fails on a username or
\* an email that a row already has.
U_RegistrationSerializer_create(data) ==
  IF User_filter_username(data.email) # {} \/ User_filter_email(data.email) # {}
  THEN AuthRefused("ServerError", {"IntegrityError"})
  ELSE AuthResult("Created", {},
         Put(accounts, nextUserId,
             [email |-> data.email, username |-> data.email,
              password |-> make_password(data.password), fullname |-> data.fullname]),
         profiles,
         tokens \cup {nextUserId},
         [token |-> nextUserId, fullname |-> data.fullname, email |-> data.email,
          user_id |-> nextUserId])

U_registration(data) ==
  IF U_RegistrationSerializer_is_valid(data) # {}
  THEN AuthRefused("ValidationError", U_RegistrationSerializer_is_valid(data))
  ELSE U_RegistrationSerializer_create(data)

\* --- KanMind-Backend LoginSerializer, LoginView.post
D_LoginSerializer_validate_email(value) ==
  User_filter_email(value) # {}

D_LoginSerializer_is_valid(data) ==
  (IF "email" \notin DOMAIN data THEN {"email:required"}
   ELSE IF ~D_LoginSerializer_validate_email(data.email) THEN {"email:invalid"} ELSE {})
  \cup (IF "password" \notin DOMAIN data THEN {"password:required"} ELSE {})

\* get(): User.objects.get(email=email), then check_password.
D_LoginSerializer_get(data) ==
  LET us == User_filter_email(data.email) IN
  IF Cardinality(us) # 1 THEN "MultipleObjectsReturned"
  ELSE IF ~check_password(data.password, accounts[CHOOSE u \in us : TRUE].password)
  THEN "password:invalid"
  ELSE "OK"

D_LoginView_post(data) ==
  IF D_LoginSerializer_is_valid(data) # {}
  THEN AuthRefused("ValidationError", D_LoginSerializer_is_valid(data))
  ELSE IF D_LoginSerializer_get(data) = "MultipleObjectsReturned"
  THEN AuthRefused("ServerError", {"MultipleObjectsReturned"})
  ELSE IF D_LoginSerializer_get(data) # "OK"
  THEN AuthRefused("ValidationError", {D_LoginSerializer_get(data)})
  ELSE LET user == CHOOSE u \in User_filter_email(data.email) : TRUE IN
       AuthResult("OK", {}, accounts, profiles, tokens \cup {user},
         [token |-> user, fullname |-> profiles[user], email |-> accounts[user].email,
          user_id |-> user])

\* --- KanMind_Backend login
U_LoginSerializer_is_valid(data) ==
  (IF "email" \notin DOMAIN data THEN {"email:required"} ELSE {})
  \cup (IF "password" \notin DOMAIN data THEN {"password:required"} ELSE {})

\* authenticate(username=user.username, password=password)
U_authenticate(username, password) ==
  {u \in User_filter_username(username) : check_password(password, accounts[u].password)}

U_login(data) ==
  IF U_LoginSerializer_is_valid(data) # {}
  THEN AuthRefused("ValidationError", U_LoginSerializer_is_valid(data))
  ELSE LET us == User_filter_email(data.email) IN
       IF us = {} THEN AuthRefused("ValidationError", {"error:invalid_credentials"})
       ELSE IF Cardinality(us) > 1
       THEN AuthRefused("ServerError", {"MultipleObjectsReturned"})
       ELSE LET found == U_authenticate(accounts[CHOOSE u \in us : TRUE].username,
                                        data.password) IN
            IF found = {} THEN AuthRefused("ValidationError", {"error:invalid_credentials"})
            ELSE LET user == CHOOSE u \in found : TRUE IN
                 AuthResult("OK", {}, accounts, profiles, tokens \cup {user},
                   [token |-> user, fullname |-> accounts[user].fullname,
                    email |-> accounts[user].email, user_id |-> user])

\* ============================================================== the routes
\* Each route is served by the view of the implementation in use.
IsD == impl = "KanMind-Backend"

BoardViewSet_create(user, data) ==
  IF IsD THEN D_BoardViewSet_create(user, data) ELSE U_BoardViewSet_create(user, data)

BoardViewSet_list(user) ==
  IF IsD THEN D_BoardViewSet_list(user) ELSE U_BoardViewSet_list(user)

BoardViewSet_retrieve(user, pk) ==
  IF IsD THEN D_BoardViewSet_retrieve(user, pk) ELSE U_BoardViewSet_retrieve(user, pk)

BoardViewSet_update(user, pk, data) ==
  IF IsD THEN D_BoardViewSet_update(user, pk, data)
         ELSE U_BoardViewSet_update(user, pk, data)

BoardViewSet_destroy(user, pk) ==
  IF IsD THEN D_BoardViewSet_destroy(user, pk) ELSE U_BoardViewSet_destroy(user, pk)

TaskViewSet_create(user, data) ==
  IF IsD THEN D_TaskViewSet_create(user, data) ELSE U_TaskViewSet_create(user, data)

TaskViewSet_update(user, pk, data, partial) ==
  IF IsD THEN D_TaskViewSet_update(user, pk, data, partial)
         ELSE U_TaskViewSet_update(user, pk, data)

TaskViewSet_destroy(user, pk) ==
  IF IsD THEN D_TaskViewSet_destroy(user, pk) ELSE U_TaskViewSet_destroy(user, pk)

\* tasks/assigned-to-me/ and tasks/reviewing/
TaskViewSet_assigned_to_me(user) ==
  IF IsD THEN D_TaskAssignedOrReviewerViewSet_list(user, "assigned")
         ELSE U_TaskViewSet_assigned_to_me(user)

TaskViewSet_reviewing(user) ==
  IF IsD THEN D_TaskAssignedOrReviewerViewSet_list(user, "reviewer")
         ELSE U_TaskViewSet_reviewing(user)

CommentViewSet_create(user, task_pk, data) ==
  IF IsD THEN D_TaskCommentsViewSet_create(user, task_pk, data)
         ELSE U_CommentViewSet_create(user, task_pk, data)

Register(data) ==
  IF IsD THEN D_RegistrationView_create(data) ELSE U_registration(data)

Register_is_valid(data) ==
  IF IsD THEN D_RegistrationSerializer_is_valid(data)
  ELSE U_RegistrationSerializer_is_valid(data)

Register_save(data) ==
  IF IsD THEN D_RegistrationSerializer_save(data) ELSE U_RegistrationSerializer_create(data)

Login(data) ==
  IF IsD THEN D_LoginView_post(data) ELSE U_login(data)

CommentViewSet_list(user, task_pk) ==
  IF IsD THEN D_TaskCommentsViewSet_list(user, task_pk)
  ELSE U_CommentViewSet_list(user, task_pk)

CommentViewSet_update(user, task_pk, pk, data, partial) ==
  IF IsD THEN D_TaskCommentsViewSet_update(user, task_pk, pk, data, partial)
         ELSE U_CommentViewSet_update(user, task_pk, pk, data, partial)

CommentViewSet_destroy(user, task_pk, pk) ==
  IF IsD THEN D_TaskCommentsViewSet_destroy(user, task_pk, pk)
         ELSE U_CommentViewSet_destroy(user, task_pk, pk)

\* ============================================================ the requests
\* A request body is a record that has a key for each field it supplies.
Opt(k, Vs) == {Empty} \cup {[x \in {k} |-> v] : v \in Vs}

Merge(f, g) ==
  [x \in DOMAIN f \cup DOMAIN g |-> IF x \in DOMAIN f THEN f[x] ELSE g[x]]

\* The member id lists of the requests: none, two members, the user 1 (an
\* owner-to-be) among the members, and one with the id of no user.
MemberInputs == {{}, {2, 3}, {1, 2}, {3, 4}}

\* Nullable ids: null, the users, the id of no user.
NullableIds == {NoUser} \cup {{u} : u \in UserIds}

\* The reviewers the requests name: null, a user, the id of no user.
ReviewerInputs == {NoUser, {3}, {4}}

BoardCreatePayloads ==
  {Merge(a, b) : a \in Opt("title", {"a"}), b \in Opt("members", MemberInputs)}

\* Board updates that supply a title, a members list, both or neither, and
\* those that supply at most a members list.
BoardUpdatePayloads ==
  {Merge(a, b) : a \in Opt("title", Titles), b \in Opt("members", MemberInputs)}

BoardMembersPayloads == Opt("members", MemberInputs)

\* The boards whose members clients update at the same time, created with
\* no member or with two, and the member lists of those updates.
ConcurrentBoardPayloads == {[title |-> "a", members |-> ms] : ms \in {{}, {2, 3}}}

ConcurrentMembersPayloads == {[members |-> ms] : ms \in {{}, {2}, {3}}}

\* A task request names a board or none and at most one more field: an
\* assignee, a reviewer or a status.
TaskPayloads ==
  {Merge(a, b) :
     a \in Opt("board", BoardIds),
     b \in Opt("assignee_id", NullableIds) \cup Opt("reviewer_id", ReviewerInputs)
           \cup Opt("status", {"done"})}

\* The task requests sent both as PUT and as PATCH; the others are PATCHes.
TaskPutPayloads ==
  {p \in TaskPayloads : DOMAIN p \subseteq {"board", "status"}}

CommentPayloads ==
  {Merge(a, b) : a \in Opt("content", {"hi", " "}), b \in Opt("board", BoardIds)}

\* The contents a comment request may carry, or none: text, text in
\* whitespace, whitespace only, the empty string.
CommentContentPayloads == Opt("content", {"hi", " hi ", " ", ""})

\* The bodies of PUT and PATCH requests on a comment.
CommentUpdatePayloads == Opt("content", {"yo", " "})

\* Registrations: an email or none, a password and its repetition, a name.
RegisterPayloads ==
  {Merge(e, [password |-> pw, repeated_password |-> rp, fullname |-> f]) :
     e \in Opt("email", Emails), pw \in Passwords, rp \in Passwords, f \in Fullnames}

\* The registrations that clients send at the same time: well-formed ones.
ConcurrentRegisterPayloads ==
  {d \in RegisterPayloads :
     "email" \in DOMAIN d /\ d.password = "password1" /\ d.repeated_password = "password1"}

LoginPayloads == [email : Emails, password : Passwords]

\* The handler's result becomes the store.
Commit(r) ==
  /\ boards' = r.boards
  /\ tasks' = r.tasks
  /\ comments' = r.comments
  /\ UNCHANGED impl
  /\ UNCHANGED authVars
  /\ UNCHANGED upd

Init ==
  /\ impl \in Impls
  /\ boards = Empty
  /\ tasks = Empty
  /\ comments = Empty
  /\ nextBoardId = 1
  /\ nextTaskId = 1
  /\ nextCommentId = 1
  /\ accounts = SeedAccounts(impl)
  /\ profiles = SeedProfiles(impl)
  /\ tokens = Users
  /\ nextUserId = Cardinality(Users) + 1
  /\ reg = [c \in Clients |-> Idle]
  /\ upd = [c \in Clients |-> Idle]

\* The registration or login result becomes the user, profile and token tables.
AuthCommit(r) ==
  /\ accounts' = r.accounts
  /\ profiles' = r.profiles
  /\ tokens' = r.tokens
  /\ nextUserId' = IF r.code = "Created" THEN nextUserId + 1 ELSE nextUserId
  /\ UNCHANGED <<impl, boards, tasks, comments, nextBoardId, nextTaskId, nextCommentId,
                 upd>>

\* POST /api/registration/, served from is_valid to the response in one step.
Registration(data) ==
  /\ nextUserId <= Cardinality(Users) + MaxRegistrations
  /\ AuthCommit(Register(data))
  /\ UNCHANGED reg

\* POST /api/login/
LoginPost(data) ==
  /\ AuthCommit(Login(data))
  /\ UNCHANGED reg

\* POST /api/registration/ of client c, first step: serializer.is_valid reads
\* the user table; a valid request goes on to save, an invalid one is answered.
RegistrationIsValid(c, data) ==
  /\ reg[c] = Idle
  /\ reg' = IF Register_is_valid(data) = {}
            THEN [reg EXCEPT ![c] = [pc |-> "save", data |-> data]] ELSE reg
  /\ UNCHANGED <<impl, boards, tasks, comments, nextBoardId, nextTaskId, nextCommentId,
                 accounts, profiles, tokens, nextUserId, upd>>

\* Second step: serializer.save writes the user table as it is by then.
RegistrationSave(c) ==
  /\ reg[c] # Idle
  /\ nextUserId <= Cardinality(Users) + MaxRegistrations
  /\ AuthCommit(Register_save(reg[c].data))
  /\ reg' = [reg EXCEPT ![c] = Idle]

\* POST /api/boards/
BoardCreate(user, data) ==
  /\ nextBoardId <= MaxBoards
  /\ Commit(BoardViewSet_create(user, data))
  /\ nextBoardId' = IF BoardViewSet_create(user, data).code = "Created"
                    THEN nextBoardId + 1 ELSE nextBoardId
  /\ UNCHANGED <<nextTaskId, nextCommentId>>

\* GET /api/boards/: a read, the store is as before.
BoardList(user) ==
  /\ \E r \in BoardViewSet_list(user) : r.code = "OK"
  /\ UNCHANGED vars

\* GET /api/boards/{pk}/
BoardRetrieve(user, pk) ==
  /\ Commit(BoardViewSet_retrieve(user, pk))
  /\ UNCHANGED <<nextBoardId, nextTaskId, nextCommentId>>

\* PUT/PATCH /api/boards/{pk}/
BoardUpdate(user, pk, data) ==
  /\ Commit(BoardViewSet_update(user, pk, data))
  /\ UNCHANGED <<nextBoardId, nextTaskId, nextCommentId>>

\* PUT/PATCH /api/boards/{pk}/ of client c with a members list, up to the
\* read of instance.members.set(users): set() reads the ids of the current
\* members (old_ids); a refused request is answered here.
BoardUpdateBegin(c, user, pk, data) ==
  /\ upd[c].pc # "write"
  /\ "members" \in DOMAIN data
  /\ upd' = IF BoardViewSet_update(user, pk, data).code = "OK"
            THEN [upd EXCEPT ![c] = [pc |-> "write", board |-> pk,
                                     members |-> User_filter_id_in(data.members),
                                     old_ids |-> boards[pk].members]]
            ELSE upd
  /\ UNCHANGED <<impl, boards, tasks, comments, nextBoardId, nextTaskId, nextCommentId>>
  /\ UNCHANGED authVars

\* The rest of set(): remove(*old_ids not in the list), then add(*the users
\* of the list not in old_ids), on the rows as they are by then.
BoardUpdateMembersSet(c) ==
  /\ upd[c].pc = "write"
  /\ upd[c].board \in DOMAIN boards
  /\ boards' = [boards EXCEPT ![upd[c].board].members =
                  (@ \ (upd[c].old_ids \ upd[c].members))
                    \cup (upd[c].members \ upd[c].old_ids)]
  /\ upd' = [upd EXCEPT ![c] = [pc |-> "done", board |-> upd[c].board,
                                members |-> upd[c].members]]
  /\ UNCHANGED <<impl, tasks, comments, nextBoardId, nextTaskId, nextCommentId>>
  /\ UNCHANGED authVars

\* DELETE /api/boards/{pk}/
BoardDestroy(user, pk) ==
  /\ Commit(BoardViewSet_destroy(user, pk))
  /\ UNCHANGED <<nextBoardId, nextTaskId, nextCommentId>>

\* POST /api/tasks/
TaskCreate(user, data) ==
  /\ nextTaskId <= MaxTasks
  /\ Commit(TaskViewSet_create(user, data))
  /\ nextTaskId' = IF TaskViewSet_create(user, data).code = "Created"
                   THEN nextTaskId + 1 ELSE nextTaskId
  /\ UNCHANGED <<nextBoardId, nextCommentId>>

\* PUT (partial = FALSE) or PATCH /api/tasks/{pk}/
TaskUpdate(user, pk, data, partial) ==
  /\ Commit(TaskViewSet_update(user, pk, data, partial))
  /\ UNCHANGED <<nextBoardId, nextTaskId, nextCommentId>>

\* DELETE /api/tasks/{pk}/
TaskDestroy(user, pk) ==
  /\ Commit(TaskViewSet_destroy(user, pk))
  /\ UNCHANGED <<nextBoardId, nextTaskId, nextCommentId>>

\* GET /api/tasks/assigned-to-me/ and GET /api/tasks/reviewing/: reads.
TaskAssignedToMe(user) ==
  /\ \E r \in TaskViewSet_assigned_to_me(user) : r.code = "OK"
  /\ UNCHANGED vars

TaskReviewing(user) ==
  /\ \E r \in TaskViewSet_reviewing(user) : r.code = "OK"
  /\ UNCHANGED vars

\* POST /api/tasks/{task_pk}/comments/
CommentCreate(user, task_pk, data) ==
  /\ nextCommentId <= MaxComments
  /\ Commit(CommentViewSet_create(user, task_pk, data))
  /\ nextCommentId' = IF CommentViewSet_create(user, task_pk, data).code = "Created"
                      THEN nextCommentId + 1 ELSE nextCommentId
  /\ UNCHANGED <<nextBoardId, nextTaskId>>

\* GET /api/tasks/{task_pk}/comments/: a read, the store is as before.
CommentList(user, task_pk) ==
  /\ CommentViewSet_list(user, task_pk).code \in {"OK", "Forbidden", "NotFound"}
  /\ UNCHANGED vars

\* PUT (partial = FALSE) or PATCH /api/tasks/{task_pk}/comments/{pk}/
CommentUpdate(user, task_pk, pk, data, partial) ==
  /\ Commit(CommentViewSet_update(user, task_pk, pk, data, partial))
  /\ UNCHANGED <<nextBoardId, nextTaskId, nextCommentId>>

\* DELETE /api/tasks/{task_pk}/comments/{pk}/
CommentDestroy(user, task_pk, pk) ==
  /\ Commit(CommentViewSet_destroy(user, task_pk, pk))
  /\ UNCHANGED <<nextBoardId, nextTaskId, nextCommentId>>

Next ==
  \/ \E user \in Users, data \in BoardCreatePayloads : BoardCreate(user, data)
  \/ \E user \in Users : BoardList(user)
  \/ \E user \in Users, pk \in BoardIds : BoardRetrieve(user, pk)
  \/ \E user \in Users, pk \in BoardIds, data \in BoardMembersPayloads :
       BoardUpdate(user, pk, data)
  \/ \E user \in Users, pk \in BoardIds : BoardDestroy(user, pk)
  \/ \E user \in Users, data \in TaskPayloads : TaskCreate(user, data)
  \/ \E user \in Users, pk \in TaskIds, data \in TaskPayloads :
       \E partial \in (IF data \in TaskPutPayloads THEN BOOLEAN ELSE {TRUE}) :
         TaskUpdate(user, pk, data, partial)
  \/ \E user \in Users, pk \in TaskIds : TaskDestroy(user, pk)
  \/ \E user \in Users : TaskAssignedToMe(user)
  \/ \E user \in Users : TaskReviewing(user)
  \/ \E user \in Users, task_pk \in TaskIds, data \in CommentPayloads :
       CommentCreate(user, task_pk, data)
  \/ \E user \in Users, task_pk \in TaskIds : CommentList(user, task_pk)
  \/ \E user \in Users, task_pk \in TaskIds, pk \in CommentIds,
          data \in CommentUpdatePayloads, partial \in BOOLEAN :
       CommentUpdate(user, task_pk, pk, data, partial)
  \/ \E user \in Users, task_pk \in TaskIds, pk \in CommentIds :
       CommentDestroy(user, task_pk, pk)

\* Requests on boards, tasks and comments, in either implementation.
Spec == Init /\ [][Next]_vars

\* Requests on boards and tasks.
NextTasks ==
  \/ \E user \in Users, data \in BoardCreatePayloads : BoardCreate(user, data)
  \/ \E user \in Users, pk \in BoardIds, data \in BoardMembersPayloads :
       BoardUpdate(user, pk, data)
  \/ \E user \in Users, pk \in BoardIds : BoardDestroy(user, pk)
  \/ \E user \in Users, data \in TaskPayloads : TaskCreate(user, data)
  \/ \E user \in Users, pk \in TaskIds, data \in TaskPayloads :
       \E partial \in (IF data \in TaskPutPayloads THEN BOOLEAN ELSE {TRUE}) :
         TaskUpdate(user, pk, data, partial)
  \/ \E user \in Users, pk \in TaskIds : TaskDestroy(user, pk)
  \/ \E user \in Users : TaskAssignedToMe(user)
  \/ \E user \in Users : TaskReviewing(user)

SpecTasks == Init /\ [][NextTasks]_vars

\* Board requests with titles; tasks are created, not changed.
NextBoards ==
  \/ \E user \in Users, data \in BoardCreatePayloads : BoardCreate(user, data)
  \/ \E user \in Users : BoardList(user)
  \/ \E user \in Users, pk \in BoardIds : BoardRetrieve(user, pk)
  \/ \E user \in Users, pk \in BoardIds, data \in BoardUpdatePayloads :
       BoardUpdate(user, pk, data)
  \/ \E user \in Users, pk \in BoardIds : BoardDestroy(user, pk)
  \/ \E user \in Users, data \in Opt("board", BoardIds) : TaskCreate(user, data)

SpecBoards == Init /\ [][NextBoards]_vars

\* Registrations and logins, one request at a time.
NextAuth ==
  \/ \E data \in RegisterPayloads : Registration(data)
  \/ \E data \in LoginPayloads : LoginPost(data)

SpecAuth == Init /\ [][NextAuth]_vars

\* Registrations of several clients whose steps interleave.
NextRace ==
  \/ \E c \in Clients, data \in ConcurrentRegisterPayloads : RegistrationIsValid(c, data)
  \/ \E c \in Clients : RegistrationSave(c)

SpecRace == Init /\ [][NextRace]_vars

\* Board updates of several clients whose steps interleave.
NextMembers ==
  \/ \E user \in Users, data \in ConcurrentBoardPayloads : BoardCreate(user, data)
  \/ \E c \in Clients, user \in Users, pk \in BoardIds,
          data \in ConcurrentMembersPayloads :
       BoardUpdateBegin(c, user, pk, data)
  \/ \E c \in Clients : BoardUpdateMembersSet(c)

SpecMembers == Init /\ [][NextMembers]_vars

\* ================================================================ claims
\* user is the owner of board b or one of its members.
Related(user, b) == boards[b].owner = user \/ user \in boards[b].members

\* The handler result r leaves the store as it is.
StoreUnchanged(r) ==
  r.boards = boards /\ r.tasks = tasks /\ r.comments = comments

RefusedCodes == {"Forbidden", "NotFound"}

\* A board update whose members list names users only.
BoardUpdateValid(data) == "members" \in DOMAIN data => data.members \subseteq Users

\* C1: in both implementations, board Retrieve and board Update (with valid
\* fields) succeed if and only if the caller is the board's owner or in its
\* member set at the time of the request; any other caller is refused with
\* Forbidden or NotFound and the store (the board's title and member set
\* included) is unchanged.
C1_BoardAccessIffOwnerOrMember ==
  \A b \in DOMAIN boards, user \in Users :
    LET rr == BoardViewSet_retrieve(user, b) IN
    /\ rr.code = "OK" <=> Related(user, b)
    /\ ~Related(user, b) => rr.code \in RefusedCodes /\ StoreUnchanged(rr)
    /\ \A data \in BoardUpdatePayloads :
         LET ru == BoardViewSet_update(user, b, data) IN
         /\ ru.code = "OK" => Related(user, b)
         /\ Related(user, b) /\ BoardUpdateValid(data) => ru.code = "OK"
         /\ ~Related(user, b) => ru.code \in RefusedCodes /\ StoreUnchanged(ru)

\* C1 witness: a board that an update has retitled, with a member who is not
\* its owner and whose update succeeds, and a user unrelated to it who is
\* refused both requests and would have changed the members.
C1_Witness ==
  \E b \in DOMAIN boards, m \in Users, o \in Users :
    /\ boards[b].title = "b"
    /\ m \in boards[b].members /\ m # boards[b].owner
    /\ ~Related(o, b)
    /\ BoardViewSet_update(m, b, [title |-> "a"]).code = "OK"
    /\ BoardViewSet_update(m, b, [title |-> "a"]).boards[b].title = "a"
    /\ BoardViewSet_retrieve(o, b).code \in RefusedCodes
    /\ BoardViewSet_update(o, b, [members |-> {}]).code \in RefusedCodes
    /\ boards[b].members # {}

C3_CascadeDelete ==
  /\ \A t \in DOMAIN tasks : tasks[t].board \in DOMAIN boards
  /\ \A c \in DOMAIN comments : comments[c].task \in DOMAIN tasks
  /\ \A b \in DOMAIN boards, user \in Users :
       LET r == BoardViewSet_destroy(user, b) IN
       b \notin DOMAIN r.boards =>
         /\ \A t \in DOMAIN tasks : t \in DOMAIN r.tasks <=> tasks[t].board # b
         /\ \A c \in DOMAIN comments :
              c \in DOMAIN r.comments <=> tasks[comments[c].task].board # b
  /\ \A t \in DOMAIN tasks, user \in Users :
       LET r == TaskViewSet_destroy(user, t) IN
       t \notin DOMAIN r.tasks =>
         \A c \in DOMAIN comments : c \in DOMAIN r.comments <=> comments[c].task # t

\* C3 witness: a board with a task that has a comment; the owner's delete of
\* the board leaves no task and no comment, and (KanMind-Backend) the delete
\* of the task leaves no comment.
C3_Witness ==
  \E b \in DOMAIN boards, t \in DOMAIN tasks, c \in DOMAIN comments :
    /\ tasks[t].board = b /\ comments[c].task = t
    /\ BoardViewSet_destroy(boards[b].owner, b).code = "NoContent"
    /\ BoardViewSet_destroy(boards[b].owner, b).tasks = Empty
    /\ BoardViewSet_destroy(boards[b].owner, b).comments = Empty
    /\ TaskViewSet_destroy(boards[b].owner, t).code = "NoContent"
    /\ TaskViewSet_destroy(boards[b].owner, t).comments = Empty

\* The task requests the claims range over: any board, assignee, reviewer and
\* status, supplied or not.
AllTaskPayloads ==
  {Merge(Merge(a, b), Merge(c, d)) :
     a \in Opt("board", BoardIds), b \in Opt("assignee_id", NullableIds),
     c \in Opt("reviewer_id", NullableIds), d \in Opt("status", {"done"})}

\* C4: in both implementations Task Create on board B creates a task only
\* when the caller is B's owner or a member of B at the time of the request;
\* for any other caller no task is created.
C4_TaskCreateOnlyByOwnerOrMember ==
  \A user \in Users, data \in AllTaskPayloads :
    LET r == TaskViewSet_create(user, data) IN
    /\ r.code = "Created" <=> r.tasks # tasks
    /\ r.tasks # tasks =>
         /\ "board" \in DOMAIN data /\ data.board \in DOMAIN boards
         /\ Related(user, data.board)
         /\ DOMAIN r.tasks = DOMAIN tasks \cup {nextTaskId}
         /\ r.tasks[nextTaskId].board = data.board

\* C4 witness: a task exists; on some board a member who is not the owner
\* can create a task and a user unrelated to the board cannot.
C4_Witness ==
  \E b \in DOMAIN boards, m \in Users, o \in Users :
    /\ tasks # Empty
    /\ m \in boards[b].members /\ m # boards[b].owner /\ ~Related(o, b)
    /\ TaskViewSet_create(m, [board |-> b]).code = "Created"
    /\ TaskViewSet_create(o, [board |-> b]).code = "Forbidden"
    /\ TaskViewSet_create(o, [board |-> b]).tasks = tasks

\* The request names, as assignee or as reviewer, an id that is neither the
\* owner nor a member of board b.
NamesOutsider(data, b) ==
  \/ "assignee_id" \in DOMAIN data /\ data.assignee_id # NoUser
       /\ \A u \in data.assignee_id : u \notin Users \/ ~Related(u, b)
  \/ "reviewer_id" \in DOMAIN data /\ data.reviewer_id # NoUser
       /\ \A u \in data.reviewer_id : u \notin Users \/ ~Related(u, b)

\* C5 as stated: Task Create on board B naming an assignee or reviewer who is
\* neither B's owner nor a member of B fails with a ValidationError and
\* creates no task, whoever the caller is.
C5_Original_OutsiderAssigneeValidationError ==
  \A user \in Users, data \in AllTaskPayloads :
    ("board" \in DOMAIN data /\ data.board \in DOMAIN boards
       /\ NamesOutsider(data, data.board)) =>
      LET r == TaskViewSet_create(user, data) IN
      r.code = "ValidationError" /\ r.tasks = tasks

\* C5 amended: such a Task Create fails and creates no task, whoever the
\* caller is: with a ValidationError when the caller is B's owner or a member
\* of B, with Forbidden when the caller is neither.
C5_OutsiderAssigneeRejected ==
  \A user \in Users, data \in AllTaskPayloads :
    ("board" \in DOMAIN data /\ data.board \in DOMAIN boards
       /\ NamesOutsider(data, data.board)) =>
      LET r == TaskViewSet_create(user, data) IN
      /\ StoreUnchanged(r)
      /\ r.code = IF Related(user, data.board) THEN "ValidationError" ELSE "Forbidden"

\* C5 witness: on a board with a member, the owner's and the member's creates
\* that assign a user unrelated to the board fail with a ValidationError,
\* while the same creates assigning the member succeed.
C5_Witness ==
  \E b \in DOMAIN boards, m \in Users, o \in Users :
    /\ m \in boards[b].members /\ m # boards[b].owner /\ ~Related(o, b)
    /\ TaskViewSet_create(boards[b].owner, [board |-> b, assignee_id |-> {o}]).code
         = "ValidationError"
    /\ TaskViewSet_create(m, [board |-> b, reviewer_id |-> {o}]).code = "ValidationError"
    /\ TaskViewSet_create(m, [board |-> b, assignee_id |-> {m}]).code = "Created"
    /\ \E t \in DOMAIN tasks : tasks[t].assignee # NoUser

\* C6 as stated: the owner of a board is an acceptable assignee and reviewer
\* for Task Create and Task Update on that board, even when the owner is not
\* in the board's member set.
C6_Original_OwnerAcceptableAssignee ==
  \A b \in DOMAIN boards, user \in Users :
    (Related(user, b) /\ boards[b].owner \notin boards[b].members) =>
      /\ TaskViewSet_create(user, [board |-> b, assignee_id |-> {boards[b].owner}]).code
           = "Created"
      /\ TaskViewSet_create(user, [board |-> b, reviewer_id |-> {boards[b].owner}]).code
           = "Created"
      /\ \A t \in DOMAIN tasks :
           tasks[t].board = b =>
             /\ TaskViewSet_update(user, t, [assignee_id |-> {boards[b].owner}], TRUE).code
                  = "OK"
             /\ TaskViewSet_update(user, t, [reviewer_id |-> {boards[b].owner}], TRUE).code
                  = "OK"

\* C7 as stated: Task Update on T supplying a board different from T's
\* current board fails with a ValidationError, for every caller and in both
\* implementations.
C7_Original_BoardChangeValidationError ==
  \A t \in DOMAIN tasks, user \in Users, data \in AllTaskPayloads, partial \in BOOLEAN :
    ("board" \in DOMAIN data /\ data.board # tasks[t].board) =>
      TaskViewSet_update(user, t, data, partial).code = "ValidationError"

\* No Task Update, by any caller with any fields, moves a task to another
\* board or removes it.
UpdateKeepsBoard ==
  \A t \in DOMAIN tasks, user \in Users, data \in AllTaskPayloads, partial \in BOOLEAN :
    LET r == TaskViewSet_update(user, t, data, partial) IN
    t \in DOMAIN r.tasks /\ r.tasks[t].board = tasks[t].board

\* C8: a task's board reference never changes: in every step each task that
\* exists before and after the step references the same board, and no Task
\* Update yields a task on another board.
C8_TaskBoardImmutable ==
  /\ []UpdateKeepsBoard
  /\ [][\A t \in DOMAIN tasks \cap DOMAIN tasks' : tasks'[t].board = tasks[t].board]_vars

\* C8 witness: with two boards owned by the same user and a task on one of
\* them, the owner's update that names the other board is rejected and the
\* task stays on its board.
C8_Witness ==
  \E t \in DOMAIN tasks, b \in DOMAIN boards :
    /\ b # tasks[t].board
    /\ boards[b].owner = boards[tasks[t].board].owner
    /\ TaskViewSet_update(boards[b].owner, t, [board |-> b], TRUE).code = "ValidationError"
    /\ TaskViewSet_update(boards[b].owner, t, [board |-> b], TRUE).tasks = tasks

\* The fields of a Task Update are valid for task t: assignee and reviewer
\* are null, the owner or a member of t's board, the board (required by a
\* full update) is t's board, and the status is one of the four statuses.
TaskUpdateValid(t, data, partial) ==
  /\ "assignee_id" \in DOMAIN data =>
       \A u \in data.assignee_id : u \in Users /\ Related(u, tasks[t].board)
  /\ "reviewer_id" \in DOMAIN data =>
       \A u \in data.reviewer_id : u \in Users /\ Related(u, tasks[t].board)
  /\ "board" \in DOMAIN data => data.board = tasks[t].board
  /\ ~partial => "board" \in DOMAIN data
  /\ "status" \in DOMAIN data => data.status \in Statuses

\* C9 as stated: Task Update on T succeeds only when the caller is the owner
\* or a member of T's board, and does succeed for every such caller with
\* valid fields; any other caller is refused and T is unchanged.
C9_Original_TaskUpdateIffOwnerOrMember ==
  \A t \in DOMAIN tasks, user \in Users, data \in AllTaskPayloads, partial \in BOOLEAN :
    LET r == TaskViewSet_update(user, t, data, partial) IN
    /\ r.code = "OK" => Related(user, tasks[t].board)
    /\ (Related(user, tasks[t].board) /\ TaskUpdateValid(t, data, partial)) => r.code = "OK"
    /\ ~Related(user, tasks[t].board) => r.code \in RefusedCodes /\ r.tasks = tasks

\* C10 as stated: Task Delete on T succeeds if and only if the caller is the
\* owner of T's board or T's current assignee; every other caller is refused
\* with Forbidden.
C10_Original_TaskDeleteIffOwnerOrAssignee ==
  \A t \in DOMAIN tasks, user \in Users :
    LET r == TaskViewSet_destroy(user, t)
        allowed == boards[tasks[t].board].owner = user \/ tasks[t].assignee = {user}
    IN  /\ allowed => r.code = "NoContent" /\ t \notin DOMAIN r.tasks
        /\ ~allowed => r.code = "Forbidden" /\ StoreUnchanged(r)

\* C11 as stated: for every task T on board B, Comment List and Comment
\* Create on T succeed only when the caller is B's owner or a member of B;
\* any other caller receives no comments and creates no comment.
C11_Original_CommentsOnlyForOwnerOrMember ==
  \A t \in DOMAIN tasks, user \in Users, data \in CommentPayloads :
    ~Related(user, tasks[t].board) =>
      /\ CommentViewSet_list(user, t).code # "OK"
      /\ CommentViewSet_list(user, t).items = <<>>
      /\ CommentViewSet_create(user, t, data).code # "Created"
      /\ CommentViewSet_create(user, t, data).comments = comments

\* C12: Comment Delete removes comment C only when the caller is C's author;
\* any other caller, the owner of the board of C's task included, is refused
\* with Forbidden and C still exists.
C12_CommentDeleteOnlyByAuthor ==
  \A c \in DOMAIN comments, user \in Users :
    LET r == CommentViewSet_destroy(user, comments[c].task, c) IN
    /\ c \notin DOMAIN r.comments => user = comments[c].author
    /\ r.code = "NoContent" => c \notin DOMAIN r.comments
    /\ user # comments[c].author => r.code = "Forbidden" /\ StoreUnchanged(r)

\* C12 witness: a comment written by a member who is not the board's owner;
\* the owner's delete is refused with Forbidden and the author's delete
\* removes the comment.
C12_Witness ==
  \E c \in DOMAIN comments :
    LET t == comments[c].task
        owner == boards[tasks[t].board].owner
    IN  /\ comments[c].author # owner
        /\ CommentViewSet_destroy(owner, t, c).code = "Forbidden"
        /\ c \in DOMAIN CommentViewSet_destroy(owner, t, c).comments
        /\ CommentViewSet_destroy(comments[c].author, t, c).code = "NoContent"
        /\ c \notin DOMAIN CommentViewSet_destroy(comments[c].author, t, c).comments

\* The user, profile and token tables are as before.
AuthUnchanged(r) ==
  r.accounts = accounts /\ r.profiles = profiles /\ r.tokens = tokens

C14_DuplicateEmailOrSlugFails ==
  \A data \in RegisterPayloads :
    /\ ("email" \in DOMAIN data /\ User_filter_email(data.email) # {}) =>
         /\ Register(data).code = "ValidationError"
         /\ AuthUnchanged(Register(data))
    /\ (IsD /\ User_filter_username(Slugify(data.fullname)) # {}) =>
         /\ Register(data).code = "ValidationError"
         /\ AuthUnchanged(Register(data))

\* C14 witness: KanMind-Backend after a registration; a second registration
\* with that user's email and a new name fails on the email, and one with a
\* new email and a name of the same slug fails on the name.
C14_Witness ==
  /\ IsD
  /\ \E u \in DOMAIN accounts \ Users, d1 \in RegisterPayloads, d2 \in RegisterPayloads :
       /\ d1.password = d1.repeated_password /\ d2.password = d2.repeated_password
       /\ "email" \in DOMAIN d1 /\ d1.email = accounts[u].email
       /\ User_filter_username(Slugify(d1.fullname)) = {}
       /\ Register(d1).errors = {"email:in_use"}
       /\ "email" \in DOMAIN d2 /\ User_filter_email(d2.email) = {}
       /\ d2.fullname # profiles[u] /\ Slugify(d2.fullname) = accounts[u].username
       /\ Register(d2).errors = {"fullname:in_use"}

\* C15 as stated: when two Register requests with the same email and
\* different fullnames run concurrently, their check and insert steps
\* interleaved in any order, at most one of them creates a user: no reachable
\* state has two users with the same email.
C15_Original_EmailUniqueUnderRace ==
  \A u \in DOMAIN accounts, v \in DOMAIN accounts :
    accounts[u].email = accounts[v].email => u = v

\* The user a login names and whether the password is that user's.
LoginUsers(data) == User_filter_email(data.email)
LoginPasswordOk(data) ==
  \E u \in LoginUsers(data) : check_password(data.password, accounts[u].password)

\* The full name of a user, wherever the implementation keeps it.
FullnameOf(u) == IF IsD THEN profiles[u] ELSE accounts[u].fullname

\* C16 as stated: Login fails with a ValidationError reporting an invalid
\* email when no user has the email, fails with a distinct ValidationError
\* reporting an invalid password when the user exists but the credential
\* check fails, and otherwise returns a token with that user's id, email and
\* fullname; a failed login changes no state.
C16_Original_LoginErrorsDistinct ==
  /\ \A data \in LoginPayloads :
       LET r == Login(data) IN
       /\ LoginUsers(data) = {} => r.code = "ValidationError" /\ AuthUnchanged(r)
       /\ (LoginUsers(data) # {} /\ ~LoginPasswordOk(data)) =>
            r.code = "ValidationError" /\ AuthUnchanged(r)
       /\ LoginPasswordOk(data) =>
            /\ r.code = "OK"
            /\ \E u \in LoginUsers(data) :
                 r.body = [token |-> u, user_id |-> u, email |-> data.email,
                           fullname |-> FullnameOf(u)]
  /\ \A d1 \in LoginPayloads, d2 \in LoginPayloads :
       (LoginUsers(d1) = {} /\ LoginUsers(d2) # {} /\ ~LoginPasswordOk(d2)) =>
         Login(d1).errors # Login(d2).errors

\* C17 as stated: Board List for caller U returns exactly the boards whose
\* owner is U or whose member set contains U, each board once, ordered most
\* recently created first, in both implementations.
C17_Original_BoardListNewestFirst ==
  \A user \in Users :
    \A r \in BoardViewSet_list(user) :
      /\ r.code = "OK"
      /\ r.items = OrderByDesc({b \in DOMAIN boards : Related(user, b)})

\* C18: Board Create by caller U with title t and member_ids M always
\* succeeds and creates a board whose owner is U and whose member set is
\* exactly the users of M that exist (ids of M that match no user are
\* dropped without error); no other board is changed.
C18_BoardCreateOwnerAndMembers ==
  \A user \in Users, data \in BoardCreatePayloads :
    ("title" \in DOMAIN data /\ "members" \in DOMAIN data) =>
      LET r == BoardViewSet_create(user, data) IN
      /\ r.code = "Created"
      /\ DOMAIN r.boards = DOMAIN boards \cup {nextBoardId}
      /\ r.boards[nextBoardId] =
           [title |-> data.title, owner |-> user, members |-> data.members \cap Users]
      /\ \A b \in DOMAIN boards : r.boards[b] = boards[b]
      /\ r.tasks = tasks /\ r.comments = comments

\* C18 witness: a board was created from a members list naming user 3 and
\* the id of no user, and its member set is {3}; the same request would
\* succeed again.
C18_Witness ==
  /\ \E b \in DOMAIN boards : boards[b].members = {3} /\ boards[b].owner # 3
  /\ \E user \in Users :
       LET r == BoardViewSet_create(user, [title |-> "a", members |-> {3, 4}]) IN
       r.code = "Created" /\ r.boards[nextBoardId].members = {3}

\* C19: Board Update changes only the supplied fields: with the members list
\* omitted the member set is unchanged, with an empty list it becomes empty,
\* with a list of existing user ids it becomes exactly that list; with the
\* title omitted the title is unchanged; the owner, the other boards, the
\* tasks and the comments are unchanged.
C19_BoardUpdateOnlySuppliedFields ==
  \A b \in DOMAIN boards, user \in Users, data \in BoardUpdatePayloads :
    (Related(user, b) /\ BoardUpdateValid(data)) =>
      LET r == BoardViewSet_update(user, b, data) IN
      /\ r.code = "OK"
      /\ DOMAIN r.boards = DOMAIN boards
      /\ r.boards[b].members =
           IF "members" \in DOMAIN data THEN data.members ELSE boards[b].members
      /\ r.boards[b].title =
           IF "title" \in DOMAIN data THEN data.title ELSE boards[b].title
      /\ r.boards[b].owner = boards[b].owner
      /\ \A o \in DOMAIN boards \ {b} : r.boards[o] = boards[o]
      /\ r.tasks = tasks /\ r.comments = comments

\* C19 witness: a board with members; its owner's update with an empty list
\* clears them, with another list replaces them, and with only a title
\* leaves them and changes the title.
C19_Witness ==
  \E b \in DOMAIN boards :
    LET o == boards[b].owner IN
    /\ boards[b].members = {2, 3} /\ boards[b].title = "a"
    /\ BoardViewSet_update(o, b, [members |-> {}]).boards[b].members = {}
    /\ BoardViewSet_update(o, b, [members |-> {1, 2}]).boards[b].members = {1, 2}
    /\ BoardViewSet_update(o, b, [title |-> "b"]).boards[b]
         = [boards[b] EXCEPT !.title = "b"]

\* C20 as stated: in every state reachable by board Create and board Update
\* requests, with any member_ids, a board's owner is not an entry of that
\* board's member set.
C20_Original_OwnerNotInMembers ==
  \A b \in DOMAIN boards : boards[b].owner \notin boards[b].members

\* A task update names an assignee, a reviewer or a board that fails
\* validation for task t: a user who is neither owner nor member of t's board
\* (or no user at all), or a board other than t's.
TaskUpdateFailsValidation(t, data) ==
  \/ NamesOutsider(data, tasks[t].board)
  \/ "board" \in DOMAIN data /\ data.board # tasks[t].board

\* C21 as stated: a multi-field update is never partially applied: a board
\* Update that supplies a valid new title together with a members list naming
\* a nonexistent user id, and a task Update that supplies valid fields
\* together with an assignee, reviewer or board that fails validation, both
\* fail with a ValidationError and leave every field of the board or task as
\* it was before the request.
C21_Original_NoPartialUpdate ==
  /\ \A b \in DOMAIN boards, user \in Users, data \in BoardUpdatePayloads :
       (Related(user, b) /\ "title" \in DOMAIN data /\ "members" \in DOMAIN data
          /\ data.members \ Users # {}) =>
         LET r == BoardViewSet_update(user, b, data) IN
         r.code = "ValidationError" /\ StoreUnchanged(r)
  /\ \A t \in DOMAIN tasks, user \in Users, data \in AllTaskPayloads :
       (Related(user, tasks[t].board) /\ "status" \in DOMAIN data
          /\ TaskUpdateFailsValidation(t, data)) =>
         LET r == TaskViewSet_update(user, t, data, TRUE) IN
         r.code = "ValidationError" /\ StoreUnchanged(r)

\* The optional user reference ref is unset, the owner of board b or one of
\* its members.
UnsetOrRelated(ref, b) == \A u \in ref : Related(u, b)

\* C22 as stated: assignee and reviewer are re-validated against board
\* membership on every task Update, whichever fields the request supplies: an
\* Update succeeds only if, after it, the task's assignee and reviewer are
\* each unset, the board's owner, or a current member of the board.
C22_Original_RolesRevalidatedOnUpdate ==
  \A t \in DOMAIN tasks, user \in Users, data \in AllTaskPayloads, partial \in BOOLEAN :
    LET r == TaskViewSet_update(user, t, data, partial) IN
    r.code = "OK" =>
      /\ UnsetOrRelated(r.tasks[t].assignee, r.tasks[t].board)
      /\ UnsetOrRelated(r.tasks[t].reviewer, r.tasks[t].board)

\* C23 as stated: Task Create fails with a ValidationError (not
\* PermissionDenied and not NotFound) and creates no task when board_id is
\* missing from the request and when board_id refers to no existing board,
\* for every authenticated caller, in both implementations.
C23_Original_BadBoardValidationError ==
  \A user \in Users, data \in AllTaskPayloads :
    ("board" \notin DOMAIN data \/ data.board \notin DOMAIN boards) =>
      LET r == TaskViewSet_create(user, data) IN
      r.code = "ValidationError" /\ StoreUnchanged(r)

\* C24 as stated: Comment Create by an authorized caller stores a comment
\* whose author is the caller and whose task is the addressed task when the
\* content is non-empty after trimming whitespace, and fails with a
\* ValidationError, storing no comment, when the content is missing, empty or
\* only whitespace; a stored comment's content, author and task are never
\* changed afterwards (here: by no PUT or PATCH on the comment).
C24_Original_CommentCreateAndImmutable ==
  /\ \A t \in DOMAIN tasks, user \in Users, data \in CommentContentPayloads :
       Related(user, tasks[t].board) =>
         LET r == CommentViewSet_create(user, t, data) IN
         IF "content" \in DOMAIN data /\ Strip(data.content) # ""
         THEN /\ r.code = "Created"
              /\ DOMAIN r.comments = DOMAIN comments \cup {nextCommentId}
              /\ r.comments[nextCommentId].author = user
              /\ r.comments[nextCommentId].task = t
              /\ \A c \in DOMAIN comments : r.comments[c] = comments[c]
         ELSE r.code = "ValidationError" /\ StoreUnchanged(r)
  /\ \A c \in DOMAIN comments, user \in Users, data \in CommentUpdatePayloads,
        partial \in BOOLEAN :
       LET r == CommentViewSet_update(user, comments[c].task, c, data, partial) IN
       c \in DOMAIN r.comments /\ r.comments[c] = comments[c]

\* The ids of a listing, and whether it names each id once.
Items(r) == {r.items[i] : i \in 1..Len(r.items)}
EachOnce(r) == \A i, j \in 1..Len(r.items) : r.items[i] = r.items[j] => i = j

\* C25: the assigned-to-me list for caller U returns exactly the existing
\* tasks whose assignee is U, and the reviewing list exactly those whose
\* reviewer is U, including tasks on boards where U is no longer (or never
\* was) owner or member, and excluding every task U is not assignee/reviewer
\* of.
C25_MyTaskListsByDirectRelation ==
  \A user \in Users :
    /\ \A r \in TaskViewSet_assigned_to_me(user) :
         /\ r.code = "OK" /\ EachOnce(r)
         /\ Items(r) = {t \in DOMAIN tasks : tasks[t].assignee = {user}}
    /\ \A r \in TaskViewSet_reviewing(user) :
         /\ r.code = "OK" /\ EachOnce(r)
         /\ Items(r) = {t \in DOMAIN tasks : tasks[t].reviewer = {user}}

\* C25 witness: a task whose assignee has been removed from the task's board
\* is on the assignee's list and on nobody else's.
C25_Witness ==
  \E t \in DOMAIN tasks, u \in Users :
    /\ tasks[t].assignee = {u} /\ ~Related(u, tasks[t].board)
    /\ \A r \in TaskViewSet_assigned_to_me(u) : r.items = <<t>>
    /\ \A o \in Users \ {u} : \A r \in TaskViewSet_assigned_to_me(o) : r.items = <<>>
    /\ \A r \in TaskViewSet_reviewing(u) : r.items = <<>>

\* C26 as stated: membership-set replacement is last-writer-wins, not merged:
\* when two board Update requests on the same board with member lists M1 and
\* M2 run concurrently with their steps interleaved in any order, the board's
\* final member set is exactly M1 or exactly M2, never a union or another
\* mixture of the two.
C26_Original_LastWriterWins ==
  \A c1 \in Clients, c2 \in Clients :
    (c1 # c2 /\ upd[c1].pc = "done" /\ upd[c2].pc = "done"
       /\ upd[c1].board = upd[c2].board) =>
      boards[upd[c1].board].members \in {upd[c1].members, upd[c2].members}

\* C27 as stated: in every state reachable by any sequence of board updates
\* (which may replace or clear the member set) and task creates/updates,
\* every task's assignee and reviewer, when set, is the owner or a current
\* member of the task's board.
C27_Original_RolesAlwaysOnBoard ==
  \A t \in DOMAIN tasks :
    /\ UnsetOrRelated(tasks[t].assignee, tasks[t].board)
    /\ UnsetOrRelated(tasks[t].reviewer, tasks[t].board)

\* C27 amended: every step that creates a task or changes its assignee or
\* reviewer leaves the new assignee and reviewer, when set, the owner or a
\* member of the task's board as the board is at that step
\* (a later board update may remove that user from the board and leaves the
\* task as it is).
C27_RolesOnBoardWhenAssigned ==
  [][\A t \in DOMAIN tasks' :
       /\ (t \notin DOMAIN tasks \/ tasks'[t].assignee # tasks[t].assignee) =>
            UnsetOrRelated(tasks'[t].assignee, tasks'[t].board)
       /\ (t \notin DOMAIN tasks \/ tasks'[t].reviewer # tasks[t].reviewer) =>
            UnsetOrRelated(tasks'[t].reviewer, tasks'[t].board)]_vars

\* C27 witness: a task whose assignee a board update has removed from the
\* task's board; a create on that board naming this user is now rejected.
C27_Witness ==
  \E t \in DOMAIN tasks, u \in Users :
    LET b == tasks[t].board IN
    /\ tasks[t].assignee = {u} /\ ~Related(u, b)
    /\ TaskViewSet_create(boards[b].owner, [board |-> b, assignee_id |-> {u}]).code
         = "ValidationError"

\* No board Update, by any caller with any title and member list, changes a
\* board's owner, and a board Delete removes a board only for its owner.
OwnerKeptByRequests ==
  \A b \in DOMAIN boards, user \in Users :
    /\ \A data \in BoardUpdatePayloads :
         LET r == BoardViewSet_update(user, b, data) IN
         b \in DOMAIN r.boards /\ r.boards[b].owner = boards[b].owner
    /\ b \notin DOMAIN BoardViewSet_destroy(user, b).boards <=> user = boards[b].owner

\* C28: a board's owner never changes: after any sequence of board updates
\* by the owner or by members (with any title and member list), task
\* operations and comment operations, every existing board has the owner it
\* was created with, and only that user can delete it.
C28_BoardOwnerImmutable ==
  /\ []OwnerKeptByRequests
  /\ [][\A b \in DOMAIN boards \cap DOMAIN boards' : boards'[b].owner = boards[b].owner]_vars

\* C28 witness: a board with a task that has a comment and with a member who
\* is not the owner; the member's update that lists only the member succeeds
\* and keeps the owner, the member cannot delete the board, the owner can.
C28_Witness ==
  \E b \in DOMAIN boards, m \in Users, t \in DOMAIN tasks, c \in DOMAIN comments :
    /\ tasks[t].board = b /\ comments[c].task = t
    /\ m \in boards[b].members /\ m # boards[b].owner
    /\ BoardViewSet_update(m, b, [title |-> "b", members |-> {m}]).code = "OK"
    /\ BoardViewSet_update(m, b, [title |-> "b", members |-> {m}]).boards[b]
         = [title |-> "b", owner |-> boards[b].owner, members |-> {m}]
    /\ BoardViewSet_destroy(m, b).code = "Forbidden"
    /\ BoardViewSet_destroy(boards[b].owner, b).code = "NoContent"

\* C29 as stated: in the KanMind-Backend implementation a comment's author
\* can delete it at any later time: Comment Delete by the author succeeds
\* also after the author has been removed from the member set of the board
\* that the comment's task belongs to.
C29_Original_AuthorCanAlwaysDelete ==
  IsD =>
    \A c \in DOMAIN comments :
      LET r == CommentViewSet_destroy(comments[c].author, comments[c].task, c) IN
      r.code = "NoContent" /\ c \notin DOMAIN r.comments

\* C30 as stated: a task Update by an authorized caller that supplies
\* assignee_id (or reviewer_id) as an explicit null clears the task's assignee
\* (reviewer), while an Update that omits the field leaves it unchanged; this
\* holds in both implementations.
C30_Original_NullClearsOmittedKeeps ==
  \A t \in DOMAIN tasks, user \in Users :
    Related(user, tasks[t].board) =>
      LET ra == TaskViewSet_update(user, t, [assignee_id |-> NoUser], TRUE)
          rr == TaskViewSet_update(user, t, [reviewer_id |-> NoUser], TRUE)
          rs == TaskViewSet_update(user, t, [status |-> "done"], TRUE)
      IN  /\ ra.code = "OK" /\ ra.tasks[t].assignee = NoUser
          /\ ra.tasks[t].reviewer = tasks[t].reviewer
          /\ rr.code = "OK" /\ rr.tasks[t].reviewer = NoUser
          /\ rr.tasks[t].assignee = tasks[t].assignee
          /\ rs.code = "OK" /\ rs.tasks[t].assignee = tasks[t].assignee
          /\ rs.tasks[t].reviewer = tasks[t].reviewer

====
